---- MODULE Spec2Model ----
(***************************************************************************)
(* A model of datman's two command-line tools:                             *)
(*   bin/xnat-extract.py  (archive extractor)    -> specification Spec     *)
(*   bin/dm-qc-todo.py    (QC checklist auditor) -> SpecWalk, SpecQC       *)
(* Strings are sequences of tokens (a token is a run of characters that no *)
(* operation of the code splits), so that joining, padding, replacing and  *)
(* counting separators are computed rather than assumed.                   *)
(***************************************************************************)
EXTENDS Integers, Sequences, FiniteSets, TLC

\* ------------------------------------------------------------------ bounds
MaxArchives == 2
MaxRows     == 2

\* ------------------------------------------------------- string helpers
RECURSIVE Join(_, _)
\* sep.join(parts), parts a sequence of strings
Join(parts, sep) ==
    IF Len(parts) = 0 THEN <<>>
    ELSE IF Len(parts) = 1 THEN parts[1]
    ELSE parts[1] \o sep \o Join(Tail(parts), sep)

\* os.path.join(a, b, ...) for relative components
PathJoin(parts) == Join(parts, <<"/">>)

DigitChar == <<"0", "1", "2", "3", "4", "5", "6", "7", "8", "9">>

RECURSIVE Str(_)
\* str(n) for a natural number, as a sequence of digit characters
Str(n) == IF n < 10 THEN <<DigitChar[n + 1]>>
          ELSE Str(n \div 10) \o <<DigitChar[(n % 10) + 1]>>

RECURSIVE Zfill(_, _)
\* s.zfill(width)
Zfill(s, width) == IF Len(s) >= width THEN s ELSE Zfill(<<"0">> \o s, width)

\* dm.utils.mangle: runs of characters outside the naming scheme become a dash
Mangle(descr) == [i \in 1..Len(descr) |-> IF descr[i] = " " THEN "-" ELSE descr[i]]

\* re.search(pattern, text) for a literal pattern
Matches(pattern, text) ==
    \E i \in 0..(Len(text) - Len(pattern)) :
        \A j \in 1..Len(pattern) : text[i + j] = pattern[j]

\* ------------------------------------------------------ extractor inputs
\* datman.scanid.parse(basename) of the archive folder SPN01_CMH_0001_01_01
scanid == [study |-> <<"SPN01">>, site |-> <<"CMH">>, subject |-> <<"0001">>,
           timepoint |-> <<"01">>, session |-> <<"01">>]

\* str(scanid)
ScanIdStr == Join(<<scanid.study, scanid.site, scanid.subject,
                    scanid.timepoint, scanid.session>>, <<"_">>)

\* --datadir
exportpath == <<"data">>

\* the exporters dispatch table
exporters == {"mnc", "nii", "nrrd"}

AllFormats == {"mnc", "nii", "nrrd", "xyz"}

\* DICOM series of the archive: SCANS/<path>/DICOM with its header fields
SeriesUniverse ==
    { [path |-> 1, SeriesNumber |-> 11, SeriesDescription |-> <<"Sag", " ", "T1">>],
      [path |-> 2, SeriesNumber |-> 5,  SeriesDescription |-> <<"T1", "w">>],
      [path |-> 3, SeriesNumber |-> 11, SeriesDescription |-> <<"Loc">>] }

\* rows of the export-info table: pattern, tag, and the formats flagged "yes"
RowUniverse ==
    { [pattern |-> <<"T1">>,      tag |-> "T1",  yes |-> AllFormats],
      [pattern |-> <<"T1", "w">>, tag |-> "T1w", yes |-> {"nii"}],
      [pattern |-> <<"T1", "w">>, tag |-> "T1",  yes |-> {}] }

\* header rows of the export-info table, each column name split at "_"
ColumnLists ==
    { << <<"pattern">>, <<"tag">>, <<"export", "mnc">>, <<"export", "nii">>, <<"count">> >>,
      << <<"pattern">>, <<"tag">>, <<"export", "nii">>, <<"export", "nrrd">>, <<"count">> >>,
      << <<"pattern">>, <<"tag">>, <<"export", "nii">>, <<"export", "xyz">> >> }

SeqsUpTo(S, n) == UNION { [1..k -> S] : k \in 1..n }

ExportInfos == { [columns |-> c, rows |-> r] : c \in ColumnLists, r \in SeqsUpTo(RowUniverse, MaxRows) }

\* an <archivedir> argument: a well-named XNAT archive, a folder whose name is
\* no scan id, or a well-named folder without SCANS
ArchiveKinds == {"good", "badname", "noscans"}

\* files dcm2nii may leave in the temporary directory: name prefix and extension
NiiOutputs ==
    { {},
      { [bn |-> <<"a">>, ext |-> ".nii.gz"], [bn |-> <<"o">>, ext |-> ".nii.gz"],
        [bn |-> <<"c", "o">>, ext |-> ".nii.gz"], [bn |-> <<"a">>, ext |-> ".bvec"] },
      { [bn |-> <<"a">>, ext |-> ".nii.gz"], [bn |-> <<"b">>, ext |-> ".nii.gz"] } }

\* what get_archive_headers may return for the good archive
HeaderSets ==
    { {}, {s \in SeriesUniverse : s.path = 2}, {s \in SeriesUniverse : s.path # 2} }

VARIABLES
    DRYRUN,      \* the --dry-run flag
    exportinfo,  \* the export-info table
    archives,    \* the <archivedir> arguments
    headers,     \* get_archive_headers of the good archive: the set of its series
    ai,          \* index of the archive main is at
    phase,       \* "main" | "series" | "formats" | "crashed"
    todo,        \* series of the current archive not yet exported
    cur,         \* the series export_series is at
    tag,         \* its resolved tag
    fi,          \* index in formats of the format export_series is at
    fs,          \* the output tree: the set of existing paths
    tmpdirs,     \* number of directories tempfile.mkdtemp created
    events,      \* what the run did: errors, makedirs, os.system, skips
    calls,       \* the exporter calls; n numbers the calls for one series and format
    overwritten  \* paths written onto while they existed

VARIABLES
    root,        \* get_project_dirs: the root argument
    maxdepth,    \* get_project_dirs: the maxdepth argument
    tree,        \* the directories below root, each the sequence of names leading to it
    checklists,  \* the directories holding metadata/checklist.csv
    stack,       \* os.walk: directories still to visit, next first
    visited,     \* directories os.walk has yielded
    paths        \* the list get_project_dirs returns

VARIABLES
    lines,          \* the lines of the project's checklist.csv, split at whitespace
    docs,           \* timepoints whose QC document exists on disk
    data_mtime,     \* newest modification time of a timepoint's data
    doc_mtime,      \* modification time of a QC document
    show_newer,     \* the --show-newer flag
    qphase,         \* "open" before the checklist is read, "html" after
    checklistdict,  \* the mapping of document name to annotation tokens
    keys,           \* checklistdict.keys() not yet looped over
    si,             \* index of the timepoint directory main is at
    reports         \* the lines printed, as (timepoint, kind)

wvars == <<root, maxdepth, tree, checklists, stack, visited, paths>>

qvars == <<lines, docs, data_mtime, doc_mtime, show_newer, qphase, checklistdict, keys,
           si, reports>>

xvars == <<DRYRUN, exportinfo, archives, headers, ai, phase, todo, cur, tag, fi,
           fs, tmpdirs, events, calls, overwritten>>

NoSeries == [path |-> 0, SeriesNumber |-> 0, SeriesDescription |-> <<>>]
NoTag == [kind |-> "none", tag |-> "", tags |-> {}]

\* get_formats_from_exportinfo
get_formats_from_exportinfo(dataframe) ==
    LET cols == SelectSeq(dataframe.columns, LAMBDA c : Len(c) >= 2 /\ c[1] = "export")
    IN  [i \in 1..Len(cols) |-> cols[i][2]]

formats == get_formats_from_exportinfo(exportinfo)

unknown_fmts == { formats[i] : i \in { j \in 1..Len(formats) : formats[j] \notin exporters } }

Event(type, a, s, f, path) == [type |-> type, a |-> a, s |-> s, f |-> f, path |-> path]

InitExtract ==
    /\ DRYRUN \in BOOLEAN
    /\ exportinfo \in ExportInfos
    /\ archives \in SeqsUpTo(ArchiveKinds, MaxArchives)
    /\ headers \in HeaderSets
    /\ ai = 1
    /\ phase = "main"
    /\ todo = {}
    /\ cur = NoSeries
    /\ tag = NoTag
    /\ fi = 0
    /\ fs = {}
    /\ tmpdirs = 0
    /\ events = {}
    /\ calls = {}
    /\ overwritten = {}

\* ------------------------------------------------------ extractor steps
\* os.makedirs(path): the directory and every missing ancestor
MakedirsPaths(parts) == { PathJoin(SubSeq(parts, 1, k)) : k \in 1..Len(parts) }

\* makedirs(path): always logged, done unless DRYRUN
makedirs(a, s, f, parts) ==
    [events |-> { Event("makedirs", a, s, f, PathJoin(parts)) },
     created |-> IF DRYRUN THEN {} ELSE MakedirsPaths(parts)]

\* extract_archive, up to the start of the series loop
ExtractArchive ==
    /\ phase = "main"
    /\ ai <= Len(archives)
    /\ LET kind == archives[ai] IN
       IF kind = "badname" THEN
            /\ events' = events \cup { Event("error_badname", ai, 0, "-", <<>>) }
            /\ ai' = ai + 1
            /\ UNCHANGED <<phase, todo>>
       ELSE IF kind = "noscans" THEN
            /\ events' = events \cup { Event("error_noscans", ai, 0, "-", <<>>) }
            /\ ai' = ai + 1
            /\ UNCHANGED <<phase, todo>>
       ELSE IF headers = {} THEN
            \* headers.values()[0] raises IndexError: the run ends
            /\ phase' = "crashed"
            /\ UNCHANGED <<events, ai, todo>>
       ELSE IF unknown_fmts # {} THEN
            /\ events' = events \cup { Event("error_unknownfmt", ai, 0, "-", <<>>) }
            /\ ai' = ai + 1
            /\ UNCHANGED <<phase, todo>>
       ELSE
            /\ events' = events \cup { Event("log_exporting", ai, 0, "-", <<>>) }
            /\ todo' = headers
            /\ phase' = "series"
            /\ UNCHANGED ai
    /\ UNCHANGED <<DRYRUN, exportinfo, archives, headers, cur, tag, fi, fs, tmpdirs,
                   calls, overwritten>>
    /\ UNCHANGED <<wvars, qvars>>

\* dict(zip(patterns, tags)): one entry per pattern, the last row's tag
TagMapPatterns == { exportinfo.rows[i].pattern : i \in 1..Len(exportinfo.rows) }

TagMapValue(p) ==
    LET last == CHOOSE i \in 1..Len(exportinfo.rows) :
                    /\ exportinfo.rows[i].pattern = p
                    /\ \A j \in (i + 1)..Len(exportinfo.rows) : exportinfo.rows[j].pattern # p
    IN  exportinfo.rows[last].tag

\* the iteration orders a dict with these keys may have
TagMapOrders ==
    { o \in [1..Cardinality(TagMapPatterns) -> TagMapPatterns] :
        \A i, j \in DOMAIN o : i # j => o[i] # o[j] }

\* dm.utils.guess_tag(description, tagmap) with the tagmap iterated in `order`:
\* None without a match, else the first matching pattern's tag, or the
\* collection of the matching tags when they are several
guess_tag(description, order) ==
    LET hits == { i \in DOMAIN order : Matches(order[i], description) }
        tags == { TagMapValue(order[i]) : i \in hits }
        first == CHOOSE i \in hits : \A j \in hits : i <= j
    IN  IF hits = {} THEN { NoTag }
        ELSE { [kind |-> "one", tag |-> TagMapValue(order[first]), tags |-> {}] }
             \cup (IF Cardinality(tags) > 1
                   THEN { [kind |-> "list", tag |-> "", tags |-> tags] } ELSE {})

SeriesEventType(t) ==
    IF t.kind = "none" THEN "series_none"
    ELSE IF t.kind = "list" THEN "series_list" ELSE "series_one"

TagFailedNoneOnly(t) == t.kind = "none"

\* not tag or type(tag) is list
TagFailed(t) == t.kind = "none" \/ t.kind = "list"

\* export_series, up to the start of the formats loop
ExportSeries ==
    /\ phase = "series"
    /\ todo # {}
    /\ \E s \in todo, order \in TagMapOrders :
        \E t \in guess_tag(Mangle(s.SeriesDescription), order) :
            /\ events' = events \cup
                 { Event(SeriesEventType(t), ai, s.path, t.tag, <<>>) } \cup
                 (IF TagFailed(t) THEN { Event("error_tag", ai, s.path, "-", <<>>) } ELSE {})
            /\ IF TagFailed(t) \/ Len(formats) = 0
               THEN /\ todo' = todo \ {s}
                    /\ UNCHANGED <<phase, cur, tag, fi>>
               ELSE /\ cur' = s
                    /\ tag' = t
                    /\ fi' = 1
                    /\ phase' = "formats"
                    /\ UNCHANGED todo
    /\ UNCHANGED <<DRYRUN, exportinfo, archives, headers, ai, fs, tmpdirs, calls, overwritten>>
    /\ UNCHANGED <<wvars, qvars>>

\* "_".join([scanid.study, scanid.site, scanid.subject])
subjectid == Join(<<scanid.study, scanid.site, scanid.subject>>, <<"_">>)

\* "_".join([str(scanid), tag, series, mangled_descr])
Filestem(t, s) ==
    Join(<<ScanIdStr, <<t>>, Zfill(Str(s.SeriesNumber), 2), Mangle(s.SeriesDescription)>>,
         <<"_">>)

\* os.path.join(exportpath, fmt, subjectid), as its components
OutputDirParts(fmt) == <<exportpath, <<fmt>>, subjectid>>

\* os.path.join(outputdir, filestem) + ext
OutputFile(outputdir, filestem, ext) == outputdir \o <<"/">> \o filestem \o <<ext>>

AllNoAny(t, fmt) ==
    \E i \in 1..Len(exportinfo.rows) :
        exportinfo.rows[i].tag = t /\ fmt \notin exportinfo.rows[i].yes

\* all(tag_exportinfo['export_'+fmt] == 'no'), tag_exportinfo the rows of the tag
AllNo(t, fmt) ==
    \A i \in 1..Len(exportinfo.rows) :
        exportinfo.rows[i].tag = t => fmt \notin exportinfo.rows[i].yes

NoEffect == [events |-> {}, files |-> {}, mkdtemp |-> 0, over |-> {}]

\* system(cmd): always logged, run unless DRYRUN
system(cmd, a, s, f, path) == { Event(cmd, a, s, f, path) }

\* export_mnc_command; out: what dcm2mnc leaves behind (nothing when it fails)
export_mnc_command(a, s, outputdir, filestem, fsys, out) ==
    LET outputfile == OutputFile(outputdir, filestem, ".mnc") IN
    IF outputfile \in fsys THEN NoEffect
    ELSE [events |-> system("exec_dcm2mnc", a, s, "mnc", outputfile),
          files |-> IF DRYRUN \/ out = {} THEN {} ELSE {outputfile},
          mkdtemp |-> 0, over |-> {}]

\* bn.startswith("o") or bn.startswith("co")
SkippedNii(f) == f.bn[1] = "o" \/ (Len(f.bn) >= 2 /\ f.bn[1] = "c" /\ f.bn[2] = "o")

export_nii_command_nocheck(a, s, outputdir, filestem, fsys, out) ==
    LET tmpfiles == IF DRYRUN THEN {} ELSE out
        moved    == { f \in tmpfiles : ~SkippedNii(f) }
        dest(f)  == OutputFile(outputdir, filestem, f.ext)
    IN  [events |-> system("exec_dcm2nii", a, s, "nii", <<>>)
                    \cup UNION { system("exec_mv", a, s, "nii", dest(f)) : f \in moved },
         files |-> { dest(f) : f \in moved },
         mkdtemp |-> 1,
         over |-> { dest(f) : f \in { g \in moved :
                        \/ dest(g) \in fsys
                        \/ \E h \in moved : h # g /\ h.ext = g.ext } }]

\* export_nii_command; out: the files dcm2nii leaves in the temporary directory
export_nii_command(a, s, outputdir, filestem, fsys, out) ==
    LET outputfile == OutputFile(outputdir, filestem, ".nii.gz")
        tmpfiles == IF DRYRUN THEN {} ELSE out
        moved    == { f \in tmpfiles : ~SkippedNii(f) }
        dest(f)  == OutputFile(outputdir, filestem, f.ext)
    IN  IF outputfile \in fsys THEN NoEffect
        ELSE [events |-> system("exec_dcm2nii", a, s, "nii", <<>>)
                         \cup UNION { system("exec_mv", a, s, "nii", dest(f)) : f \in moved },
              files |-> { dest(f) : f \in moved },
              mkdtemp |-> 1,
              over |-> { dest(f) : f \in { g \in moved :
                             \/ dest(g) \in fsys
                             \/ \E h \in moved : h # g /\ h.ext = g.ext } }]

\* export_nrrd_command; out: what DWIConvert leaves behind (nothing when it fails)
export_nrrd_command(a, s, outputdir, filestem, fsys, out) ==
    LET outputfile == OutputFile(outputdir, filestem, ".nrrd") IN
    IF outputfile \in fsys THEN NoEffect
    ELSE [events |-> system("exec_DWIConvert", a, s, "nrrd", outputfile),
          files |-> IF DRYRUN \/ out = {} THEN {} ELSE {outputfile},
          mkdtemp |-> 0, over |-> {}]

\* exporters[fmt](seriesdir, outputdir, filestem)
Exporter(fmt, a, s, outputdir, filestem, fsys, out) ==
    IF fmt = "mnc" THEN export_mnc_command(a, s, outputdir, filestem, fsys, out)
    ELSE IF fmt = "nii" THEN export_nii_command(a, s, outputdir, filestem, fsys, out)
    ELSE export_nrrd_command(a, s, outputdir, filestem, fsys, out)

ExtOf(fmt) == IF fmt = "mnc" THEN ".mnc" ELSE IF fmt = "nii" THEN ".nii.gz" ELSE ".nrrd"

\* what the external converter of a format may produce
Outcomes(fmt) == IF fmt = "nii" THEN NiiOutputs ELSE { {}, { [bn |-> <<"a">>, ext |-> ExtOf(fmt)] } }

\* one turn of the formats loop of export_series
ExportFormat ==
    /\ phase = "formats"
    /\ fi <= Len(formats)
    /\ LET fmt == formats[fi]
           parts == OutputDirParts(fmt)
           outputdir == PathJoin(parts)
           filestem == Filestem(tag.tag, cur)
           mk == IF outputdir \in fs THEN [events |-> {}, created |-> {}]
                 ELSE makedirs(ai, cur.path, fmt, parts)
       IN  IF AllNo(tag.tag, fmt) THEN
               /\ events' = events \cup { Event("skip", ai, cur.path, fmt, <<>>) }
               /\ UNCHANGED <<fs, tmpdirs, calls, overwritten>>
           ELSE \E out \in Outcomes(fmt) :
               LET eff == Exporter(fmt, ai, cur.path, outputdir, filestem,
                                   fs \cup mk.created, out)
               IN  /\ events' = events \cup mk.events \cup eff.events
                   /\ fs' = fs \cup mk.created \cup eff.files
                   /\ tmpdirs' = tmpdirs + eff.mkdtemp
                   /\ overwritten' = overwritten \cup eff.over
                   /\ calls' = calls \cup
                         { [a |-> ai, s |-> cur.path, f |-> fmt, outputdir |-> outputdir,
                            filestem |-> filestem,
                            existed |-> OutputFile(outputdir, filestem, ExtOf(fmt)) \in fs,
                            n |-> 1 + Cardinality({ c \in calls :
                                    c.a = ai /\ c.s = cur.path /\ c.f = fmt })] }
    /\ IF fi = Len(formats)
       THEN /\ phase' = "series"
            /\ todo' = todo \ {cur}
            /\ fi' = 0
            /\ cur' = NoSeries
            /\ tag' = NoTag
       ELSE /\ fi' = fi + 1
            /\ UNCHANGED <<phase, todo, cur, tag>>
    /\ UNCHANGED <<DRYRUN, exportinfo, archives, headers, ai>>
    /\ UNCHANGED <<wvars, qvars>>

\* export_resources, and the return of extract_archive to main's loop
ExportResources ==
    /\ phase = "series"
    /\ todo = {}
    /\ LET parts == <<exportpath, <<"RESOURCES">>, ScanIdStr>>
           outputdir == PathJoin(parts)
           mk == IF outputdir \in fs THEN [events |-> {}, created |-> {}]
                 ELSE makedirs(ai, 0, "-", parts)
       IN  /\ events' = events \cup mk.events
                          \cup system("exec_rsync", ai, 0, "-", outputdir)
           /\ fs' = fs \cup mk.created
    /\ ai' = ai + 1
    /\ phase' = "main"
    /\ UNCHANGED <<DRYRUN, exportinfo, archives, headers, todo, cur, tag, fi, tmpdirs,
                   calls, overwritten>>
    /\ UNCHANGED <<wvars, qvars>>

\* --------------------------------------------- dm-qc-todo.py: the walk
MaxLevel == 3

Names == {"a", "b"}

\* the forms of --root: without and with a trailing separator
RootForms == { <<"/", "archive">>, <<"/", "archive", "/">> }

\* the default of get_project_dirs' maxdepth
DefaultMaxdepth == 2

\* os.path.join(a, b)
OsPathJoin(a, b) ==
    IF Len(a) = 0 \/ a[Len(a)] = "/" THEN a \o <<b>> ELSE a \o <<"/", b>>

RECURSIVE DirPath(_, _)
\* the dirpath os.walk yields for the directory reached from top by the names d
DirPath(top, d) == IF d = <<>> THEN top ELSE DirPath(OsPathJoin(top, Head(d)), Tail(d))

\* s.count(os.path.sep)
CountSep(s) == Cardinality({ i \in 1..Len(s) : s[i] = "/" })

Prefixes(d) == { SubSeq(d, 1, k) : k \in 0..Len(d) }

DirUniverse == UNION { [1..k -> Names] : k \in 0..MaxLevel }

Trees == { Prefixes(p) \cup Prefixes(q) : p, q \in DirUniverse }

Children(d) == { c \in tree : Len(c) = Len(d) + 1 /\ SubSeq(c, 1, Len(d)) = d }

\* the orders os.listdir may give a set of directories in
Orderings(S) ==
    { o \in [1..Cardinality(S) -> S] : \A i, j \in DOMAIN o : i # j => o[i] # o[j] }

IdleExtract ==
    /\ DRYRUN = FALSE /\ exportinfo = <<>> /\ archives = <<>> /\ headers = {}
    /\ ai = 1 /\ phase = "main" /\ todo = {} /\ cur = NoSeries /\ tag = NoTag /\ fi = 0
    /\ fs = {} /\ tmpdirs = 0 /\ events = {} /\ calls = {} /\ overwritten = {}

IdleWalk ==
    /\ root = <<>> /\ maxdepth = 0 /\ tree = {} /\ checklists = {}
    /\ stack = <<>> /\ visited = {} /\ paths = <<>>

IdleQC ==
    /\ lines = <<>> /\ docs = {} /\ data_mtime = 0 /\ doc_mtime = 0 /\ show_newer = FALSE
    /\ qphase = "idle" /\ checklistdict = <<>> /\ keys = {} /\ si = 0 /\ reports = {}

InitWalk ==
    /\ root \in RootForms
    /\ maxdepth \in 1..DefaultMaxdepth
    /\ tree \in Trees
    /\ checklists \in { c \in SUBSET tree : Cardinality(c) <= 2 }
    /\ stack = << <<>> >>
    /\ visited = {}
    /\ paths = <<>>
    /\ IdleExtract
    /\ IdleQC

\* dirpath.count(os.path.sep) - root.count(os.path.sep)
Depth(dirpath) == CountSep(dirpath) - CountSep(root)

\* one turn of the loop over os.walk(root)
WalkStep ==
    /\ stack # <<>>
    /\ LET d == Head(stack)
           dirpath == DirPath(root, d)
           project == d \in checklists
           pruned == project \/ Depth(dirpath) >= maxdepth
           dirs == IF pruned THEN {} ELSE Children(d)
       IN  /\ visited' = visited \cup {d}
           /\ paths' = IF project THEN Append(paths, dirpath) ELSE paths
           /\ \E o \in Orderings(dirs) : stack' = o \o Tail(stack)
    /\ UNCHANGED <<root, maxdepth, tree, checklists>>
    /\ UNCHANGED <<xvars, qvars>>

SpecWalk == InitWalk /\ [][WalkStep]_<<xvars, wvars, qvars>>

\* ------------------------------------- dm-qc-todo.py: checklist and sessions
MaxLines == 2

\* the timepoint folders under <project>/data/nii, in sorted order, each name as
\* its tokens
TimepointDirs ==
    << <<"SPN01_CMH_0001_01">>, <<"SPN01_CMH_0002_01">>, <<"SPN01_CMH", "_PHA_", "FBN0001">> >>

\* 'qc_' + timepoint + '.html'
QcDocName(timepoint) == <<"qc_">> \o timepoint \o <<".html">>

\* document names a checklist line may start with
KeyUniverse ==
    { <<"qc_">> \o TimepointDirs[1] \o suffix :
        suffix \in { <<".pdf">>, <<".html">>, <<".pdf", ".html">>, <<".html", ".pdf">> } }

\* a line of checklist.csv after l.strip().split(): blank, or a name and its tokens
LineUniverse == { <<>> } \cup { <<k>> \o v : k \in KeyUniverse, v \in { <<>>, <<"ok">> } }

MTimes == {1, 2}

InitQC ==
    /\ lines \in UNION { [1..n -> LineUniverse] : n \in 0..MaxLines }
    /\ docs \in SUBSET { TimepointDirs[1], TimepointDirs[2] }
    /\ data_mtime \in MTimes
    /\ doc_mtime \in MTimes
    /\ show_newer \in BOOLEAN
    /\ qphase = "open"
    /\ checklistdict = <<>>
    /\ keys = {}
    /\ si = 1
    /\ reports = {}
    /\ IdleExtract
    /\ IdleWalk

\* {d[0]: d[1:] for d in [l.strip().split() for l in lines if l.strip()]}
DictOfLines(ls) ==
    LET nonblank == { i \in 1..Len(ls) : ls[i] # <<>> }
        ks == { ls[i][1] : i \in nonblank }
        last(k) == CHOOSE i \in nonblank :
                      ls[i][1] = k /\ \A j \in nonblank : ls[j][1] = k => j <= i
    IN  [k \in ks |-> Tail(ls[last(k)])]

\* '.pdf' in k
HasPdf(k) == \E i \in 1..Len(k) : k[i] = ".pdf"

\* k.replace('.pdf', '.html')
ReplacePdf(k) == [i \in 1..Len(k) |-> IF k[i] = ".pdf" THEN ".html" ELSE k[i]]

\* d[key] = value
DictSet(d, key, value) ==
    [k \in DOMAIN d \cup {key} |-> IF k = key THEN value ELSE d[k]]

\* the checklist is read into checklistdict
LoadChecklist ==
    /\ qphase = "open"
    /\ checklistdict' = DictOfLines(lines)
    /\ keys' = DOMAIN DictOfLines(lines)
    /\ qphase' = "html"
    /\ UNCHANGED <<lines, docs, data_mtime, doc_mtime, show_newer, si, reports>>
    /\ UNCHANGED <<xvars, wvars>>

AddHtmlIfAbsent(d, k) ==
    IF HasPdf(k) /\ ReplacePdf(k) \notin DOMAIN d THEN DictSet(d, ReplacePdf(k), d[k]) ELSE d

\* the body of the loop that adds .html for all .pdf keys
AddHtml(d, k) ==
    IF HasPdf(k) THEN DictSet(d, ReplacePdf(k), d[k]) ELSE d

\* one turn of the loop over checklistdict.keys(), in the order the dict gives
AddHtmlKey ==
    /\ qphase = "html"
    /\ keys # {}
    /\ \E k \in keys :
        /\ checklistdict' = AddHtml(checklistdict, k)
        /\ keys' = keys \ {k}
    /\ UNCHANGED <<lines, docs, data_mtime, doc_mtime, show_newer, qphase, si, reports>>
    /\ UNCHANGED <<xvars, wvars>>

\* '_PHA_' in timepointdir
IsPhantom(timepoint) == \E i \in 1..Len(timepoint) : timepoint[i] = "_PHA_"

SessionReportsFallThrough(timepoint) ==
    LET qcdocname == QcDocName(timepoint) IN
    (IF qcdocname \notin DOMAIN checklistdict THEN {"no_entry"} ELSE {})
    \cup (IF timepoint \notin docs THEN {"no_doc"} ELSE {})
    \cup (IF show_newer /\ data_mtime > doc_mtime THEN {"stale"} ELSE {})
    \cup (IF qcdocname \notin DOMAIN checklistdict \/ checklistdict[qcdocname] = <<>>
          THEN {"unsigned"} ELSE {})

\* what the loop body prints for one timepoint
SessionReports(timepoint) ==
    LET qcdocname == QcDocName(timepoint) IN
    IF qcdocname \notin DOMAIN checklistdict THEN {"no_entry"}
    ELSE IF timepoint \notin docs THEN {"no_doc"}
    ELSE (IF show_newer /\ data_mtime > doc_mtime THEN {"stale"} ELSE {})
         \cup (IF checklistdict[qcdocname] = <<>> THEN {"unsigned"} ELSE {})

\* one turn of the loop over the timepoint folders
CheckSession ==
    /\ qphase = "html"
    /\ keys = {}
    /\ si <= Len(TimepointDirs)
    /\ LET timepoint == TimepointDirs[si] IN
       reports' = IF IsPhantom(timepoint) THEN reports
                  ELSE reports \cup { <<timepoint, r>> : r \in SessionReports(timepoint) }
    /\ si' = si + 1
    /\ UNCHANGED <<lines, docs, data_mtime, doc_mtime, show_newer, qphase, checklistdict, keys>>
    /\ UNCHANGED <<xvars, wvars>>

NextQC == LoadChecklist \/ AddHtmlKey \/ CheckSession

SpecQC == InitQC /\ [][NextQC]_<<xvars, wvars, qvars>>

NextExtract == ExtractArchive \/ ExportSeries \/ ExportFormat \/ ExportResources

Init == InitExtract /\ IdleWalk /\ IdleQC
Next == NextExtract
vars == <<xvars, wvars, qvars>>
Spec == Init /\ [][Next]_vars

\* ------------------------------------------------------------- properties
ExecTypes == {"exec_dcm2mnc", "exec_dcm2nii", "exec_mv", "exec_DWIConvert", "exec_rsync"}

SeriesByPath(p) == CHOOSE s \in SeriesUniverse : s.path = p

\* C1: an exporter called while its output file <outputdir>/<filestem>.<ext>
\* exists issues no external command (converter or mv) for that series and
\* format, so a second run over existing outputs converts nothing.
C1_ExistingOutputNotConverted ==
    \A c \in calls :
        c.existed =>
            ~ \E e \in events :
                e.a = c.a /\ e.s = c.s /\ e.f = c.f /\ e.type \in ExecTypes

C1_Witness ==
    \E c \in calls : c.existed /\ c.a = 2 /\ c.f = "nii"

\* C2: in dry-run mode a run creates no directory and runs no external
\* process: the filesystem is left unchanged.
C2_DryRunLeavesFilesystem ==
    DRYRUN => (fs = {} /\ tmpdirs = 0)

\* C3: with an unregistered format in the export-info table, every archive
\* handed to extract_archive is reported and skipped before anything of it is
\* exported, and main goes on to the archives listed after it.
C3_UnknownFormatSkipsArchive ==
    unknown_fmts # {} =>
        /\ phase = "main"
        /\ calls = {} /\ fs = {} /\ tmpdirs = 0
        /\ \A a \in 1..(ai - 1) :
              archives[a] = "good" =>
                  Event("error_unknownfmt", a, 0, "-", <<>>) \in events

\* C4: a series whose tag resolution is empty or a list is reported and left
\* alone (no directory, no exporter), the remaining series of the archive are
\* still exported, and the archive's resources after them.
C4_TagErrorIsPerSeries ==
    /\ \A e \in events :
          e.type \in {"series_none", "series_list"} =>
              /\ Event("error_tag", e.a, e.s, "-", <<>>) \in events
              /\ ~ \E x \in events : x.a = e.a /\ x.s = e.s
                        /\ x.type \in ExecTypes \cup {"makedirs", "skip"}
              /\ ~ \E c \in calls : c.a = e.a /\ c.s = e.s
    /\ \A e \in events :
          e.type = "exec_rsync" =>
              \A s \in headers :
                  \E x \in events : x.a = e.a /\ x.s = s.path
                        /\ x.type \in {"series_none", "series_list", "series_one"}
    /\ (phase = "series" /\ todo # {}) => ENABLED ExportSeries
    /\ (phase = "series" /\ todo = {}) => ENABLED ExportResources

C4_Witness ==
    \E e \in events :
        /\ e.type = "error_tag"
        /\ \E c \in calls : c.a = e.a /\ c.s # e.s
        /\ \E x \in events : x.type = "exec_rsync" /\ x.a = e.a

\* the tag of the first row, in file order, whose pattern matches
FirstRowTag(description) ==
    LET hits == { i \in 1..Len(exportinfo.rows) :
                    Matches(exportinfo.rows[i].pattern, description) }
    IN  exportinfo.rows[CHOOSE i \in hits : \A j \in hits : i <= j].tag

\* C8: the resolved tag of a series is the tag of the first row of the
\* export-info table, in file order, whose pattern matches its description.
C8_FirstMatchInRowOrder ==
    \A e \in events :
        e.type = "series_one" =>
            e.f = FirstRowTag(Mangle(SeriesByPath(e.s).SeriesDescription))

\* C9: no exporter ever writes or moves a file onto a path that exists.
C9_NeverOverwritten ==
    overwritten = {}

\* the formats of a series already through the formats loop
Handled(a, s, i) ==
    \/ a < ai
    \/ phase # "formats"
    \/ cur.path # s
    \/ i < fi

\* C10: for a series with a resolved tag, the exporter of a format is skipped
\* (no directory, no call) iff every row of that tag has export_<f> = 'no';
\* otherwise <exportpath>/<f>/<study>_<site>_<subject> is ensured and the
\* exporter is called exactly once, with the filestem
\* <scanid>_<tag>_<series, two digits>_<mangled description>.
C10_FormatGating ==
    \A e \in events :
        e.type = "series_one" =>
            \A i \in 1..Len(formats) :
                Handled(e.a, e.s, i) =>
                    LET f == formats[i]
                        series == SeriesByPath(e.s)
                        allno == \A r \in 1..Len(exportinfo.rows) :
                                    exportinfo.rows[r].tag = e.f =>
                                        f \notin exportinfo.rows[r].yes
                        mine == { c \in calls : c.a = e.a /\ c.s = e.s /\ c.f = f }
                        dir == <<"data", "/", f, "/", "SPN01", "_", "CMH", "_", "0001">>
                        number == IF series.SeriesNumber < 10
                                  THEN <<"0", DigitChar[series.SeriesNumber + 1]>>
                                  ELSE <<DigitChar[(series.SeriesNumber \div 10) + 1],
                                         DigitChar[(series.SeriesNumber % 10) + 1]>>
                        stem == <<"SPN01", "_", "CMH", "_", "0001", "_", "01", "_", "01",
                                  "_", e.f, "_">> \o number \o <<"_">>
                                \o Mangle(series.SeriesDescription)
                    IN  IF allno
                        THEN /\ mine = {}
                             /\ Event("makedirs", e.a, e.s, f, dir) \notin events
                        ELSE /\ Cardinality(mine) = 1
                             /\ \A c \in mine : c.outputdir = dir /\ c.filestem = stem
                             /\ IF DRYRUN
                                THEN Event("makedirs", e.a, e.s, f, dir) \in events
                                ELSE dir \in fs

C10_Witness ==
    \E c \in calls :
        /\ Event("skip", c.a, c.s, formats[1], <<>>) \in events
        /\ c.f = formats[2]
        /\ SeriesByPath(c.s).SeriesNumber < 10
        /\ phase = "series"

\* C6: a directory the walk reaches is returned iff metadata/checklist.csv is
\* directly beneath it, and the walk reaches no directory more than maxdepth
\* levels below root nor any directory beneath a project directory.
C6_WalkBounded ==
    \A d \in visited :
        /\ (\E i \in 1..Len(paths) : paths[i] = DirPath(root, d)) <=> d \in checklists
        /\ Len(d) <= maxdepth
        /\ \A k \in 0..(Len(d) - 1) : SubSeq(d, 1, k) \notin checklists

Loaded == qphase = "html" /\ keys = {}

\* C5: a session whose key qc_<timepoint>.html is absent from the checklist
\* mapping gets the report "No checklist entry" and no other, whether or not
\* its QC document exists.
C5_NoEntryOnly ==
    \A i \in 1..(si - 1) :
        LET timepoint == TimepointDirs[i]
            mine == { r \in reports : r[1] = timepoint }
        IN  IF IsPhantom(timepoint) THEN mine = {}
            ELSE QcDocName(timepoint) \notin DOMAIN checklistdict =>
                    mine = { <<timepoint, "no_entry">> }

C5_Witness ==
    /\ si > 1
    /\ TimepointDirs[1] \in docs
    /\ \E k \in DOMAIN checklistdict : HasPdf(k)
    /\ QcDocName(TimepointDirs[1]) \notin DOMAIN checklistdict
    /\ <<TimepointDirs[1], "no_entry">> \in reports

\* C7 as stated: once the checklist is loaded, every key with '.pdf' has its
\* '.html' key, with the same annotation tokens.
C7_PdfKeysHaveEqualHtml ==
    Loaded =>
        \A k \in DOMAIN checklistdict :
            HasPdf(k) =>
                /\ ReplacePdf(k) \in DOMAIN checklistdict
                /\ checklistdict[ReplacePdf(k)] = checklistdict[k]

\* C7 as amended: once the checklist is loaded, every key with '.pdf' has its
\* '.html' key, whose annotation tokens are those of a '.pdf' key with that
\* '.html' form: of the key itself when no other '.pdf' key shares the form.
C7_PdfKeysHaveHtml ==
    Loaded =>
        \A k \in DOMAIN checklistdict :
            HasPdf(k) =>
                LET same == { j \in DOMAIN checklistdict :
                                HasPdf(j) /\ ReplacePdf(j) = ReplacePdf(k) }
                IN  /\ ReplacePdf(k) \in DOMAIN checklistdict
                    /\ \E j \in same : checklistdict[ReplacePdf(k)] = checklistdict[j]
                    /\ same = {k} => checklistdict[ReplacePdf(k)] = checklistdict[k]

C7_Witness ==
    /\ Loaded
    /\ \E i, j \in 1..Len(lines) :
          /\ lines[i] # <<>> /\ lines[j] # <<>>
          /\ HasPdf(lines[i][1])
          /\ lines[j][1] = ReplacePdf(lines[i][1])
          /\ Tail(lines[i]) # Tail(lines[j])
          /\ checklistdict[lines[j][1]] = Tail(lines[i])

====
